---------------------------- MODULE Spec2Model ----------------------------
(***************************************************************************)
(* A model of the Iter<T> sequence engine of rstd (src/unnamed/part_000).  *)
(*                                                                         *)
(* The heap holds two kinds of objects: Iter instances ("engines", with    *)
(* the private fields #iter, #done, #consumed, #fused) and iterator        *)
(* objects (pull sources: array iterators, scripted mocks, and the frames  *)
(* of the generator functions the combinators create).  Every method is a  *)
(* pure operator from a heap to a heap and a result; every action is one   *)
(* call made by the caller, which is recorded in hist.                     *)
(***************************************************************************)
EXTENDS Integers, Sequences, FiniteSets, TLC

VARIABLES
    engines,    \* Seq of Iter instances, indexed by engine id
    iters,      \* Seq of iterator objects, indexed by iterator id
    hist,       \* Seq of the calls the caller has made, with their outcomes
    budget      \* the number of calls the caller makes in this run

vars == <<engines, iters, hist, budget>>

RECURSIVE IteratorNext(_, _)
RECURSIVE Iter_next(_, _)
RECURSIVE FilterScan(_, _, _, _)
RECURSIVE CollectLoop(_, _, _)
RECURSIVE FoldLoop(_, _, _, _)
RECURSIVE EqLoop(_, _, _, _)
RECURSIVE CmpLoop(_, _, _, _)
RECURSIVE CmpLoopKeepsNaN(_, _, _, _)
RECURSIVE StepBySkip(_, _, _)
RECURSIVE AllLoop(_, _, _)
RECURSIVE AnyLoop(_, _, _)
RECURSIVE LastLoop(_, _, _)
RECURSIVE PartitionLoop(_, _, _, _, _)
RECURSIVE PartitionLoopPrepends(_, _, _, _, _)
RECURSIVE AdvanceLoop(_, _, _, _)
RECURSIVE SkipWhileScan(_, _, _, _)

---------------------------------------------------------------------------
(* Bounds of the model.                                                    *)
MaxLen == 2         \* longest array a source is built from
MaxCalls == 3       \* calls the caller makes on a single engine and its derivations
MaxEngines == 3     \* engines alive in one run
MaxClonedCalls == 5 \* calls the caller makes on an engine and its duplicates
MaxPairCalls == 4   \* calls the caller makes on two engines and their zip or chain
MaxSelectCalls == 4 \* calls the caller makes on an engine and its take_while, step_by or skip_while
MaxCmpCalls == 2    \* calls the caller makes on two engines, cmp_by among them

---------------------------------------------------------------------------
(* JavaScript values.                                                      *)
Undef == [t |-> "undefined"]
NaN == [t |-> "NaN"]
Num(n) == [t |-> "number", n |-> n]
Bool(b) == [t |-> "boolean", b |-> b]
Pair(a, b) == [t |-> "array", a |-> a, b |-> b]

(* An object: data is its content, copy tells structuredClone's copies     *)
(* from the original (two objects are the same object iff both agree).     *)
Obj(d) == [t |-> "object", data |-> d, copy |-> 0]

StructuredClone(v) == IF v.t = "object" THEN [v EXCEPT !.copy = @ + 1] ELSE v

SameContent(v, w) ==
    IF v.t = "object" /\ w.t = "object" THEN v.data = w.data ELSE v = w

Numbers == {Num(1), Num(2)}

RECURSIVE SeqsUpTo(_, _)
SeqsUpTo(S, n) ==
    IF n = 0 THEN {<<>>}
    ELSE LET shorter == SeqsUpTo(S, n - 1)
         IN shorter \cup {Append(s, x) : s \in {q \in shorter : Len(q) = n - 1}, x \in S}

Arrays == SeqsUpTo(Numbers, MaxLen)

(* An iterator result {value, done}, together with the heap after the pull. *)
Res(H, value, done) == [H |-> H, value |-> value, done |-> done]

(* The outcome of a method call: the heap after it, the value returned,    *)
(* whether the call threw, and whether it loops for ever (hang).           *)
Out(H, ret, thrown) == [H |-> H, ret |-> ret, thrown |-> thrown, hang |-> FALSE]
Hang(H) == [H |-> H, ret |-> Undef, thrown |-> FALSE, hang |-> TRUE]

(* The callbacks the caller passes.                                        *)
ApplyFn(f, v) ==
    CASE f = "inc" -> IF v.t = "number" THEN Num(v.n + 1) ELSE NaN
      [] f = "add" -> IF v[1].t = "number" /\ v[2].t = "number"
                      THEN Num(v[1].n + v[2].n) ELSE NaN

(* eq callbacks: "strict" is ===, "approx" is Math.abs(a - b) < 1, which  *)
(* is false when either side is undefined (NaN < 1).                       *)
Eq(q, a, b) ==
    CASE q = "strict" -> a = b
      [] q = "approx" -> a.t = "number" /\ b.t = "number" /\ a.n = b.n

(* cmp callbacks: "diff" is a - b (NaN when a side is undefined),          *)
(* "threeway" is a < b ? -1 : a > b ? 1 : 0 (0 when a side is undefined).  *)
Cmp(c, a, b) ==
    CASE c = "diff" -> IF a.t = "number" /\ b.t = "number" THEN Num(a.n - b.n) ELSE NaN
      [] c = "threeway" ->
            IF a.t = "number" /\ b.t = "number"
            THEN (IF a.n < b.n THEN Num(0 - 1) ELSE IF a.n > b.n THEN Num(1) ELSE Num(0))
            ELSE Num(0)
      [] c = "nanBelow" ->
            IF a.t = "number" /\ b.t = "number" /\ a.n >= b.n THEN Num(a.n - b.n) ELSE NaN

Sign(n) == IF n < 0 THEN 0 - 1 ELSE IF n > 0 THEN 1 ELSE 0

Test(p, v) ==
    CASE p = "even" -> v.t = "number" /\ v.n % 2 = 0
      [] p = "odd" -> v.t = "number" /\ v.n % 2 = 1

---------------------------------------------------------------------------
(* Heap objects.                                                           *)

(* new Iter(i): #done = false, #consumed = false, #fused = {false, false}  *)
Iter(i) ==
    [iter |-> i, done |-> FALSE, consumed |-> FALSE,
     fused |-> [called |-> FALSE, dead |-> FALSE]]

NewIterator(H, rec) == [H EXCEPT !.i = Append(@, rec)]
NewEngine(H, i) == [H EXCEPT !.e = Append(@, Iter(i))]
LastIterator(H) == Len(H.i)
LastEngine(H) == Len(H.e)

(* The iterator of an array: yields the items, then {undefined, true}.     *)
ArrayIterator(items) ==
    [kind |-> "array", items |-> items, pos |-> 0, pulls |-> 0]

ArrayNext(H, s) ==
    LET it == H.i[s] IN
    IF it.pos < Len(it.items)
    THEN Res([H EXCEPT !.i[s].pos = @ + 1, !.i[s].pulls = @ + 1],
             it.items[it.pos + 1], FALSE)
    ELSE Res([H EXCEPT !.i[s].pulls = @ + 1], Undef, TRUE)

(* A scripted pull source: answers its script one result at a time, then   *)
(* {undefined, true}.  The script may go on after a done result and a      *)
(* done result may carry a value (an iterator's return value).             *)
MockIterator(script) ==
    [kind |-> "mock", items |-> script, pos |-> 0, pulls |-> 0]

MockNext(H, s) ==
    LET it == H.i[s] IN
    IF it.pos < Len(it.items)
    THEN Res([H EXCEPT !.i[s].pos = @ + 1, !.i[s].pulls = @ + 1],
             it.items[it.pos + 1].value, it.items[it.pos + 1].done)
    ELSE Res([H EXCEPT !.i[s].pulls = @ + 1], Undef, TRUE)

(* The generator peek() installs as #iter.                                 *)
PeekGenerator(peeked, source) ==
    [kind |-> "peek", peeked |-> peeked, source |-> source,
     pc |-> "start", itemDone |-> FALSE]

PeekNext(H, s) ==
    LET g == H.i[s] IN
    CASE g.pc = "start" ->
            IF g.peeked.done
            THEN Res([H EXCEPT !.i[s].pc = "end"], Undef, TRUE)
            ELSE Res([H EXCEPT !.i[s].pc = "loop"], g.peeked.value, FALSE)
      [] g.pc = "loop" ->
            IF ~g.itemDone
            THEN LET r == IteratorNext(H, g.source)
                 IN Res([r.H EXCEPT !.i[s].itemDone = r.done], r.value, FALSE)
            ELSE Res([H EXCEPT !.i[s].pc = "end"], Undef, TRUE)
      [] OTHER -> Res(H, Undef, TRUE)

---------------------------------------------------------------------------
(* The generator frames of the unary combinators.  self is the engine the  *)
(* combinator was called on; pc is where the frame is suspended: "start"   *)
(* (not yet run), "yield" (at its yield), "end" (returned).                *)
Generator(kind, self, arg) ==
    [kind |-> kind, self |-> self, arg |-> arg, pc |-> "start", n |-> 0, seen |-> <<>>]

Finish(H, s) == Res([H EXCEPT !.i[s].pc = "end"], Undef, TRUE)

(* map: the yield comes before this.#consumed = true.                      *)
MapIterate(H, s) ==
    LET g == H.i[s]
        o == Iter_next([H EXCEPT !.e[g.self].consumed = FALSE], g.self)
    IN IF ~o.H.e[g.self].done
       THEN Res([o.H EXCEPT !.i[s].pc = "yield"], ApplyFn(g.arg, o.ret), FALSE)
       ELSE Finish([o.H EXCEPT !.e[g.self].consumed = TRUE], s)

MapNext(H, s) ==
    LET g == H.i[s] IN
    CASE g.pc = "start" -> MapIterate(H, s)
      [] g.pc = "yield" ->
            LET H1 == [H EXCEPT !.e[g.self].consumed = TRUE]
            IN IF ~H1.e[g.self].done THEN MapIterate(H1, s) ELSE Finish(H1, s)
      [] OTHER -> Res(H, Undef, TRUE)

(* inspect: f is called on every item pulled, the end included.            *)
InspectIterate(H, s) ==
    LET g == H.i[s]
        o == Iter_next([H EXCEPT !.e[g.self].consumed = FALSE], g.self)
        H1 == [o.H EXCEPT !.i[s].seen = Append(@, o.ret)]
    IN IF ~H1.e[g.self].done
       THEN Res([H1 EXCEPT !.i[s].pc = "yield"], o.ret, FALSE)
       ELSE Finish([H1 EXCEPT !.e[g.self].consumed = TRUE], s)

InspectNext(H, s) ==
    LET g == H.i[s] IN
    CASE g.pc = "start" -> InspectIterate(H, s)
      [] g.pc = "yield" ->
            LET H1 == [H EXCEPT !.e[g.self].consumed = TRUE]
            IN IF ~H1.e[g.self].done THEN InspectIterate(H1, s) ELSE Finish(H1, s)
      [] OTHER -> Res(H, Undef, TRUE)

(* filter: while (!this.#done && !f(item)) item = this.next()              *)
FilterScan(H, e, p, item) ==
    IF ~H.e[e].done /\ ~Test(p, item)
    THEN LET o == Iter_next(H, e) IN FilterScan(o.H, e, p, o.ret)
    ELSE Out(H, item, FALSE)

FilterIterate(H, s) ==
    LET g == H.i[s]
        o == Iter_next([H EXCEPT !.e[g.self].consumed = FALSE], g.self)
        k == FilterScan(o.H, g.self, g.arg, o.ret)
    IN IF ~k.H.e[g.self].done
       THEN Res([k.H EXCEPT !.i[s].pc = "yield"], k.ret, FALSE)
       ELSE Finish([k.H EXCEPT !.e[g.self].consumed = TRUE], s)

FilterNext(H, s) ==
    LET g == H.i[s] IN
    CASE g.pc = "start" -> FilterIterate(H, s)
      [] g.pc = "yield" ->
            LET H1 == [H EXCEPT !.e[g.self].consumed = TRUE]
            IN IF ~H1.e[g.self].done THEN FilterIterate(H1, s) ELSE Finish(H1, s)
      [] OTHER -> Res(H, Undef, TRUE)

(* enumerate: this.#consumed = true comes before the yield; n is i.        *)
EnumerateIterate(H, s) ==
    LET g == H.i[s]
        o == Iter_next([H EXCEPT !.e[g.self].consumed = FALSE], g.self)
        H1 == [o.H EXCEPT !.e[g.self].consumed = TRUE]
    IN IF ~H1.e[g.self].done
       THEN Res([H1 EXCEPT !.i[s].pc = "yield", !.i[s].n = @ + 1],
                Pair(Num(g.n), o.ret), FALSE)
       ELSE Finish(H1, s)

EnumerateNext(H, s) ==
    LET g == H.i[s] IN
    CASE g.pc = "start" -> EnumerateIterate(H, s)
      [] g.pc = "yield" ->
            IF ~H.e[g.self].done THEN EnumerateIterate(H, s) ELSE Finish(H, s)
      [] OTHER -> Res(H, Undef, TRUE)

(* take: n is the closure's n, tested and decremented at the loop's head.  *)
TakeIterate(H, s) ==
    LET g == H.i[s] IN
    IF g.n = 0 THEN Finish(H, s)
    ELSE LET o == Iter_next([H EXCEPT !.e[g.self].consumed = FALSE], g.self)
             H1 == [o.H EXCEPT !.e[g.self].consumed = TRUE, !.i[s].n = @ - 1]
         IN IF ~H1.e[g.self].done
            THEN Res([H1 EXCEPT !.i[s].pc = "yield"], o.ret, FALSE)
            ELSE Finish(H1, s)

TakeNext(H, s) ==
    LET g == H.i[s] IN
    CASE g.pc = "start" -> TakeIterate([H EXCEPT !.e[g.self].consumed = FALSE], s)
      [] g.pc = "yield" ->
            IF ~H.e[g.self].done THEN TakeIterate(H, s) ELSE Finish(H, s)
      [] OTHER -> Res(H, Undef, TRUE)

(* take_while: the generator returns at the first item the predicate      *)
(* refuses; this.#consumed = true comes before the test and the yield.     *)
(* o is the outcome of this.next().                                        *)
TakeWhileStep(o, s, e, p) ==
    LET H1 == [o.H EXCEPT !.e[e].consumed = TRUE]
    IN IF ~H1.e[e].done
       THEN IF ~Test(p, o.ret) THEN Finish(H1, s)
            ELSE Res([H1 EXCEPT !.i[s].pc = "yield"], o.ret, FALSE)
       ELSE Finish(H1, s)

(* A take_while that skips the items the predicate refuses, as filter does. *)
TakeWhileAsFilter(H, s) ==
    FilterIterate([H EXCEPT !.e[H.i[s].self].consumed = TRUE], s)

TakeWhileIterate(H, s) ==
    TakeWhileStep(Iter_next([H EXCEPT !.e[H.i[s].self].consumed = FALSE], H.i[s].self),
                  s, H.i[s].self, H.i[s].arg)

TakeWhileNext(H, s) ==
    LET g == H.i[s] IN
    CASE g.pc = "start" \/ (g.pc = "yield" /\ ~H.e[g.self].done) -> TakeWhileIterate(H, s)
      [] g.pc = "yield" /\ H.e[g.self].done -> Finish(H, s)
      [] OTHER -> Res(H, Undef, TRUE)

(* step_by: let n = step; while (--n) this.next()                          *)
StepBySkip(H, e, n) ==
    IF n <= 1 THEN H ELSE StepBySkip(Iter_next(H, e).H, e, n - 1)

(* step_by: the item is yielded whether or not the pull reported done.     *)
StepByStep(o, s, e, step) ==
    Res([StepBySkip(o.H, e, step) EXCEPT !.e[e].consumed = TRUE, !.i[s].pc = "yield"],
        o.ret, FALSE)

StepByIterate(H, s) ==
    StepByStep(Iter_next([H EXCEPT !.e[H.i[s].self].consumed = FALSE], H.i[s].self),
               s, H.i[s].self, H.i[s].arg)

StepByNext(H, s) ==
    LET g == H.i[s] IN
    CASE g.pc = "start" \/ (g.pc = "yield" /\ ~H.e[g.self].done) -> StepByIterate(H, s)
      [] g.pc = "yield" /\ H.e[g.self].done -> Finish(H, s)
      [] OTHER -> Res(H, Undef, TRUE)

(* skip_while: while (!item.done && predicate(item.value)) item =          *)
(* this.#iter.next(), on the iterator itself; item is the result of the    *)
(* last pull and seen is what the predicate was called on.                 *)
SkipWhileScan(item, s, e, p) ==
    IF item.done THEN item
    ELSE IF Test(p, item.value)
    THEN SkipWhileScan(
            IteratorNext([item.H EXCEPT !.i[s].seen = Append(@, item.value)],
                         item.H.e[e].iter),
            s, e, p)
    ELSE Res([item.H EXCEPT !.i[s].seen = Append(@, item.value)], item.value, FALSE)

(* skip_while: the first yield is of item.value, done or not, and comes    *)
(* with this.#consumed false.                                              *)
SkipWhileFirst(k, s) == Res([k.H EXCEPT !.i[s].pc = "first"], k.value, FALSE)

(* skip_while: then the loop of the other combinators.                     *)
SkipWhileStep(o, s, e) ==
    LET H1 == [o.H EXCEPT !.e[e].consumed = TRUE]
    IN IF ~H1.e[e].done
       THEN Res([H1 EXCEPT !.i[s].pc = "yield"], o.ret, FALSE)
       ELSE Finish(H1, s)

SkipWhileIterate(H, s) ==
    SkipWhileStep(Iter_next([H EXCEPT !.e[H.i[s].self].consumed = FALSE], H.i[s].self),
                  s, H.i[s].self)

SkipWhileNext(H, s) ==
    LET g == H.i[s] IN
    CASE g.pc = "start" ->
            SkipWhileFirst(
                SkipWhileScan(
                    IteratorNext([H EXCEPT !.e[g.self].consumed = FALSE], H.e[g.self].iter),
                    s, g.self, g.arg),
                s)
      [] g.pc = "first" \/ (g.pc = "yield" /\ ~H.e[g.self].done) -> SkipWhileIterate(H, s)
      [] g.pc = "yield" /\ H.e[g.self].done -> Finish(H, s)
      [] OTHER -> Res(H, Undef, TRUE)

---------------------------------------------------------------------------
(* cloned(iter), the helper: a fork of one iterator for two consumers.     *)
(* next(i) hands consumer i the next item it has not had: one the other    *)
(* consumer already pulled, kept in queue[i], else a fresh pull, which is  *)
(* kept for the other consumer; done when the source reports its end.      *)
Fork(source) == [kind |-> "fork", source |-> source, queue |-> <<(<<>>), (<<>>)>>]

ForkNext(H, s, i) ==
    LET f == H.i[s]
        mine == i + 1
        theirs == 2 - i
    IN IF f.queue[mine] # <<>>
       THEN Res([H EXCEPT !.i[s].queue[mine] = Tail(@)], Head(f.queue[mine]), FALSE)
       ELSE LET r == IteratorNext(H, f.source)
            IN IF r.done THEN Res(r.H, Undef, TRUE)
               ELSE Res([r.H EXCEPT !.i[s].queue[theirs] = Append(@, r.value)],
                        r.value, FALSE)

(* The two generators of Iter.cloned: side 0 is installed as this.#iter    *)
(* and yields next(0); side 1 is the duplicate's and yields                *)
(* structuredClone(next(1)).                                               *)
ClonedGenerator(fork, side) ==
    [kind |-> "cloned", fork |-> fork, side |-> side, pc |-> "start"]

(* A cloned generator that yields the duplicate's elements as they are,   *)
(* without structuredClone.                                                *)
ClonedNextNoCopy(H, s) ==
    LET g == H.i[s] IN
    IF g.pc = "end" THEN Res(H, Undef, TRUE)
    ELSE LET x == ForkNext(H, g.fork, g.side)
         IN IF x.done THEN Finish(x.H, s)
            ELSE Res([x.H EXCEPT !.i[s].pc = "yield"], x.value, FALSE)

ClonedNext(H, s) ==
    LET g == H.i[s] IN
    IF g.pc = "end" THEN Res(H, Undef, TRUE)
    ELSE LET x == ForkNext(H, g.fork, g.side)
         IN IF x.done THEN Finish(x.H, s)
            ELSE Res([x.H EXCEPT !.i[s].pc = "yield"],
                     IF g.side = 1 THEN StructuredClone(x.value) ELSE x.value, FALSE)

---------------------------------------------------------------------------
(* The iterator objects of zip and chain: they pull this.#iter and         *)
(* other.#iter directly, each read from its engine at the time of the pull.*)
Binary(kind, self, other) == [kind |-> kind, self |-> self, other |-> other]

(* A zip that reports end only when both sides have.                      *)
ZipNextLongWins(H, s) ==
    LET z == H.i[s]
        a == IteratorNext(H, H.e[z.self].iter)
        b == IteratorNext(a.H, a.H.e[z.other].iter)
    IN IF a.done /\ b.done THEN Res(b.H, Undef, TRUE)
       ELSE Res(b.H, Pair(a.value, b.value), FALSE)

ZipNext(H, s) ==
    LET z == H.i[s]
        a == IteratorNext(H, H.e[z.self].iter)
        b == IteratorNext(a.H, a.H.e[z.other].iter)
    IN IF a.done \/ b.done THEN Res(b.H, Undef, TRUE)
       ELSE Res(b.H, Pair(a.value, b.value), FALSE)

(* A chain that pulls other before this.                                  *)
ChainNextOtherFirst(H, s) ==
    LET c == H.i[s]
        r == IteratorNext(H, H.e[c.other].iter)
    IN IF r.done THEN IteratorNext(r.H, r.H.e[c.self].iter) ELSE r

ChainNext(H, s) ==
    LET c == H.i[s]
        r == IteratorNext(H, H.e[c.self].iter)
    IN IF r.done THEN IteratorNext(r.H, r.H.e[c.other].iter) ELSE r

---------------------------------------------------------------------------
(* Pulling an iterator object: this.#iter.next().                          *)
IteratorNext(H, s) ==
    LET kind == H.i[s].kind IN
    CASE kind = "array" -> ArrayNext(H, s)
      [] kind = "mock" -> MockNext(H, s)
      [] kind = "peek" -> PeekNext(H, s)
      [] kind = "map" -> MapNext(H, s)
      [] kind = "inspect" -> InspectNext(H, s)
      [] kind = "filter" -> FilterNext(H, s)
      [] kind = "enumerate" -> EnumerateNext(H, s)
      [] kind = "take" -> TakeNext(H, s)
      [] kind = "take_while" -> TakeWhileNext(H, s)
      [] kind = "step_by" -> StepByNext(H, s)
      [] kind = "skip_while" -> SkipWhileNext(H, s)
      [] kind = "cloned" -> ClonedNext(H, s)
      [] kind = "zip" -> ZipNext(H, s)
      [] kind = "chain" -> ChainNext(H, s)

---------------------------------------------------------------------------
(* Iter methods.                                                           *)

Iter_next(H, e) ==
    LET self == H.e[e] IN
    IF self.consumed THEN Out(H, Undef, TRUE)
    ELSE IF self.fused.dead THEN Out(H, Undef, FALSE)
    ELSE LET r == IteratorNext(H, self.iter)
             dead == self.fused.called /\ r.value = Undef
         IN Out([r.H EXCEPT !.e[e].done = r.done,
                            !.e[e].fused.dead = @ \/ dead],
                IF ~r.done THEN r.value ELSE Undef, FALSE)

Iter_fuse(H, e) ==
    Out([H EXCEPT !.e[e].fused.called = TRUE], Undef, FALSE)

Iter_peek(H, e) ==
    LET r == IteratorNext(H, H.e[e].iter)
        H1 == NewIterator(r.H, PeekGenerator([value |-> r.value, done |-> r.done],
                                             r.H.e[e].iter))
    IN Out([H1 EXCEPT !.e[e].iter = LastIterator(H1)],
           IF r.done THEN Undef ELSE r.value, FALSE)

(* by_ref: a new Iter over the same iterator object, with this engine's   *)
(* #done and #consumed copied.                                             *)
Iter_by_ref(H, e) ==
    LET H1 == NewEngine(H, H.e[e].iter)
        i == LastEngine(H1)
    IN Out([H1 EXCEPT !.e[i].done = H.e[e].done, !.e[i].consumed = H.e[e].consumed],
           i, FALSE)

(* The unary combinators: mark this consumed, return a new Iter over a    *)
(* fresh generator frame.                                                  *)
Derive(H, e, frame) ==
    LET H1 == NewIterator([H EXCEPT !.e[e].consumed = TRUE], frame)
        H2 == NewEngine(H1, LastIterator(H1))
    IN Out(H2, LastEngine(H2), FALSE)

Iter_map(H, e, f) == Derive(H, e, Generator("map", e, f))
Iter_inspect(H, e) == Derive(H, e, Generator("inspect", e, "log"))
Iter_filter(H, e, p) == Derive(H, e, Generator("filter", e, p))
Iter_enumerate(H, e) == Derive(H, e, Generator("enumerate", e, "none"))
Iter_take(H, e, n) == Derive(H, e, [Generator("take", e, n) EXCEPT !.n = n])
Iter_take_while(H, e, p) == Derive(H, e, Generator("take_while", e, p))
Iter_step_by(H, e, step) == Derive(H, e, Generator("step_by", e, step))
Iter_skip_while(H, e, p) == Derive(H, e, Generator("skip_while", e, p))

(* collect: while (!this.#done) result.push(this.next()!)                  *)
CollectLoop(H, e, result) ==
    IF H.e[e].done THEN Out(H, result, FALSE)
    ELSE IF ~H.e[e].consumed /\ H.e[e].fused.dead THEN Hang(H)
    ELSE LET o == Iter_next(H, e)
         IN IF o.thrown THEN o ELSE CollectLoop(o.H, e, Append(result, o.ret))

Pop(result) == IF result = <<>> THEN <<>> ELSE SubSeq(result, 1, Len(result) - 1)

Iter_collect(H, e) ==
    LET l == CollectLoop(H, e, <<>>)
    IN IF l.thrown \/ l.hang THEN l
       ELSE Out([l.H EXCEPT !.e[e].consumed = TRUE], Pop(l.ret), FALSE)

(* fold: the do-while body; this.#consumed is cleared before every next.   *)
FoldLoop(H, e, init, f) ==
    IF H.e[e].fused.dead /\ ~H.e[e].done THEN Hang(H)
    ELSE LET o == Iter_next([H EXCEPT !.e[e].consumed = FALSE], e)
             H1 == [o.H EXCEPT !.e[e].consumed = TRUE]
             acc == IF ~H1.e[e].done THEN ApplyFn(f, <<init, o.ret>>) ELSE init
         IN IF ~H1.e[e].done THEN FoldLoop(H1, e, acc, f) ELSE Out(H1, acc, FALSE)

Iter_fold(H, e, init, f) == FoldLoop([H EXCEPT !.e[e].consumed = TRUE], e, init, f)

(* all: returns false at the first item f refuses, true at the end;       *)
(* #consumed is not assigned.  o is the outcome of the last this.next().   *)
AllLoop(o, e, f) ==
    IF o.thrown \/ o.hang THEN o
    ELSE IF o.H.e[e].done THEN Out(o.H, Bool(TRUE), FALSE)
    ELSE IF ~Test(f, o.ret) THEN Out(o.H, Bool(FALSE), FALSE)
    ELSE AllLoop(Iter_next(o.H, e), e, f)

Iter_all(H, e, f) == AllLoop(Iter_next(H, e), e, f)

(* any: returns true at the first item f accepts, false at the end.        *)
AnyLoop(o, e, f) ==
    IF o.thrown \/ o.hang THEN o
    ELSE IF o.H.e[e].done THEN Out(o.H, Bool(FALSE), FALSE)
    ELSE IF Test(f, o.ret) THEN Out(o.H, Bool(TRUE), FALSE)
    ELSE IF o.H.e[e].fused.dead THEN Hang(o.H)
    ELSE AnyLoop(Iter_next(o.H, e), e, f)

Iter_any(H, e, f) == AnyLoop(Iter_next(H, e), e, f)

(* last: while (!this.#done) [last, item] = [item, this.next()]; o is the  *)
(* outcome of the last this.next(), whose value is item.                   *)
LastLoop(o, e, last) ==
    IF o.thrown \/ o.hang THEN o
    ELSE IF o.H.e[e].done THEN Out(o.H, last, FALSE)
    ELSE IF ~o.H.e[e].consumed /\ o.H.e[e].fused.dead THEN Hang(o.H)
    ELSE LastLoop(Iter_next(o.H, e), e, o.ret)

Iter_last(H, e) == LastLoop(Out(H, Undef, FALSE), e, Undef)

(* A partition that puts each item at the front of its group.              *)
PartitionLoopPrepends(o, e, f, yes, no) ==
    IF o.thrown \/ o.hang THEN o
    ELSE IF o.H.e[e].done
    THEN Out([o.H EXCEPT !.e[e].consumed = TRUE], Pair(yes, no), FALSE)
    ELSE IF ~o.H.e[e].consumed /\ o.H.e[e].fused.dead THEN Hang(o.H)
    ELSE PartitionLoopPrepends(Iter_next(o.H, e), e, f,
                               IF Test(f, o.ret) THEN <<o.ret>> \o yes ELSE yes,
                               IF Test(f, o.ret) THEN no ELSE <<o.ret>> \o no)

(* partition: the do-while; result[0] takes the items f accepts and        *)
(* result[1] the others.  o is the outcome of this.next().                 *)
PartitionLoop(o, e, f, yes, no) ==
    IF o.thrown \/ o.hang THEN o
    ELSE IF o.H.e[e].done
    THEN Out([o.H EXCEPT !.e[e].consumed = TRUE], Pair(yes, no), FALSE)
    ELSE IF ~o.H.e[e].consumed /\ o.H.e[e].fused.dead THEN Hang(o.H)
    ELSE PartitionLoop(Iter_next(o.H, e), e, f,
                       IF Test(f, o.ret) THEN Append(yes, o.ret) ELSE yes,
                       IF Test(f, o.ret) THEN no ELSE Append(no, o.ret))

Iter_partition(H, e, f) == PartitionLoop(Iter_next(H, e), e, f, <<>>, <<>>)

(* advance_by: for (let i = 0; i < n; i++, this.next()) if (this.#done)    *)
(* return i; return undefined.  o is the outcome of the last this.next().  *)
AdvanceLoop(o, e, i, n) ==
    IF o.thrown \/ o.hang THEN o
    ELSE IF i < n
    THEN IF o.H.e[e].done THEN Out(o.H, Num(i), FALSE)
         ELSE AdvanceLoop(Iter_next(o.H, e), e, i + 1, n)
    ELSE Out(o.H, Undef, FALSE)

Iter_advance_by(H, e, n) == AdvanceLoop(Out(H, Undef, FALSE), e, 0, n)

(* cloned: fork this.#iter, read side 0 from now on, return the Iter of    *)
(* side 1.                                                                 *)
Iter_cloned(H, e) ==
    LET H1 == NewIterator(H, Fork(H.e[e].iter))
        fork == LastIterator(H1)
        H2 == NewIterator(H1, ClonedGenerator(fork, 0))
        H3 == [H2 EXCEPT !.e[e].iter = LastIterator(H2)]
        H4 == NewIterator(H3, ClonedGenerator(fork, 1))
        H5 == NewEngine(H4, LastIterator(H4))
    IN Out(H5, LastEngine(H5), FALSE)

(* zip, chain: mark both operands consumed, return a new Iter.             *)
Combine(H, e, other, kind) ==
    LET H1 == NewIterator([H EXCEPT !.e[e].consumed = TRUE, !.e[other].consumed = TRUE],
                          Binary(kind, e, other))
        H2 == NewEngine(H1, LastIterator(H1))
    IN Out(H2, LastEngine(H2), FALSE)

Iter_zip(H, e, other) == Combine(H, e, other, "zip")
Iter_chain(H, e, other) == Combine(H, e, other, "chain")

(* eq_by: the while loop returns false at the first pair eq rejects.  A    *)
(* round that changes nothing (both engines fused and dead, neither done)  *)
(* and does not return is repeated for ever.                               *)
EqLoop(H, e, other, q) ==
    IF ~H.e[e].done /\ ~H.e[other].done
    THEN LET a == Iter_next(H, e)
             b == Iter_next(a.H, other)
         IN IF a.thrown THEN a
            ELSE IF b.thrown THEN b
            ELSE IF ~Eq(q, a.ret, b.ret) THEN Out(b.H, Bool(FALSE), FALSE)
            ELSE IF b.H = H THEN Hang(H)
            ELSE EqLoop(b.H, e, other, q)
    ELSE LET H1 == [H EXCEPT !.e[e].consumed = TRUE, !.e[other].consumed = TRUE]
         IN Out(H1, Bool(~(~H1.e[e].done \/ ~H1.e[other].done)), FALSE)

Iter_eq_by(H, e, other, q) == EqLoop(H, e, other, q)

(* A cmp_by that takes a NaN for an equal pair and goes on.                *)
CmpLoopKeepsNaN(H, e, other, c) ==
    IF ~H.e[e].done /\ ~H.e[other].done
    THEN LET a == Iter_next(H, e)
             b == Iter_next(a.H, other)
             ord == Cmp(c, a.ret, b.ret)
         IN IF a.thrown THEN a
            ELSE IF b.thrown THEN b
            ELSE IF ord # Num(0) /\ ord # NaN
            THEN Out(b.H, Num(Sign(ord.n)), FALSE)
            ELSE CmpLoopKeepsNaN(b.H, e, other, c)
    ELSE LET H1 == [H EXCEPT !.e[e].consumed = TRUE, !.e[other].consumed = TRUE]
         IN Out(H1, IF ~H1.e[e].done THEN Num(1)
                    ELSE IF ~H1.e[other].done THEN Num(0 - 1) ELSE Num(0), FALSE)

(* cmp_by: the while loop returns at the first pair cmp does not give 0.   *)
(* A round that changes nothing and does not return is repeated for ever.  *)
CmpLoop(H, e, other, c) ==
    IF ~H.e[e].done /\ ~H.e[other].done
    THEN LET a == Iter_next(H, e)
             b == Iter_next(a.H, other)
             ord == Cmp(c, a.ret, b.ret)
         IN IF a.thrown THEN a
            ELSE IF b.thrown THEN b
            ELSE IF ord # Num(0)
            THEN Out(b.H, IF ord = NaN THEN Num(0) ELSE Num(Sign(ord.n)), FALSE)
            ELSE IF b.H = H THEN Hang(H)
            ELSE CmpLoop(b.H, e, other, c)
    ELSE LET H1 == [H EXCEPT !.e[e].consumed = TRUE, !.e[other].consumed = TRUE]
         IN Out(H1, IF ~H1.e[e].done THEN Num(1)
                    ELSE IF ~H1.e[other].done THEN Num(0 - 1) ELSE Num(0), FALSE)

Iter_cmp_by(H, e, other, c) == CmpLoop(H, e, other, c)

---------------------------------------------------------------------------
(* The caller.                                                             *)
Heap == [e |-> engines, i |-> iters]

BaseIterators(H) == {k \in DOMAIN H.i : H.i[k].kind \in {"array", "mock"}}
BasePulls(H) == [s \in BaseIterators(H) |-> H.i[s].pulls]
BasePos(H) == [s \in BaseIterators(H) |-> H.i[s].pos]

(* One call of the caller's: what was called on which engine, the state    *)
(* before it, and its outcome.  other is 0 and arg is "none" where the     *)
(* method has none.                                                        *)
Call(op, e, other, arg, o) ==
    [op |-> op, self |-> e, other |-> other, argument |-> arg,
     consumedBefore |-> engines[e].consumed,
     doneBefore |-> engines[e].done,
     posBefore |-> BasePos(Heap),
     pullsBefore |-> BasePulls(Heap),
     thrown |-> o.thrown, hang |-> o.hang, ret |-> o.ret,
     doneAfter |-> o.H.e[e].done,
     pulls |-> BasePulls(o.H)]

Commit(op, e, other, arg, o) ==
    /\ Len(hist) < budget
    /\ engines' = o.H.e
    /\ iters' = o.H.i
    /\ hist' = Append(hist, Call(op, e, other, arg, o))
    /\ UNCHANGED budget

Engines == DOMAIN engines
CanDerive == Len(engines) < MaxEngines

CallNext == \E e \in Engines : Commit("next", e, 0, "none", Iter_next(Heap, e))
CallPeek == \E e \in Engines : Commit("peek", e, 0, "none", Iter_peek(Heap, e))
CallFuse == \E e \in Engines : Commit("fuse", e, 0, "none", Iter_fuse(Heap, e))
CallCollect == \E e \in Engines : Commit("collect", e, 0, "none", Iter_collect(Heap, e))
CallFold ==
    \E e \in Engines : Commit("fold", e, 0, "add", Iter_fold(Heap, e, Num(0), "add"))
CallMap ==
    \E e \in Engines : CanDerive /\ Commit("map", e, 0, "inc", Iter_map(Heap, e, "inc"))
CallInspect ==
    \E e \in Engines : CanDerive /\ Commit("inspect", e, 0, "log", Iter_inspect(Heap, e))
CallFilter ==
    \E e \in Engines, p \in {"even", "odd"} :
        CanDerive /\ Commit("filter", e, 0, p, Iter_filter(Heap, e, p))
CallEnumerate ==
    \E e \in Engines : CanDerive /\ Commit("enumerate", e, 0, "none", Iter_enumerate(Heap, e))
CallTake ==
    \E e \in Engines, n \in 0..MaxLen :
        CanDerive /\ Commit("take", e, 0, n, Iter_take(Heap, e, n))

CallByRef ==
    \E e \in Engines : CanDerive /\ Commit("by_ref", e, 0, "none", Iter_by_ref(Heap, e))
CallAll ==
    \E e \in Engines, f \in {"even", "odd"} : Commit("all", e, 0, f, Iter_all(Heap, e, f))
CallAny ==
    \E e \in Engines, f \in {"even", "odd"} : Commit("any", e, 0, f, Iter_any(Heap, e, f))
CallLast == \E e \in Engines : Commit("last", e, 0, "none", Iter_last(Heap, e))
CallPartition ==
    \E e \in Engines, f \in {"even", "odd"} :
        Commit("partition", e, 0, f, Iter_partition(Heap, e, f))
CallAdvanceBy ==
    \E e \in Engines, n \in 0..(MaxLen + 2) :
        Commit("advance_by", e, 0, n, Iter_advance_by(Heap, e, n))

(* take_while, step_by and skip_while are called on the source engine.    *)
CallTakeWhile ==
    /\ CanDerive
    /\ \E p \in {"even", "odd"} :
            Commit("take_while", 1, 0, p, Iter_take_while(Heap, 1, p))
CallStepBy ==
    /\ CanDerive
    /\ \E step \in 1..MaxLen : Commit("step_by", 1, 0, step, Iter_step_by(Heap, 1, step))
CallSkipWhile ==
    /\ CanDerive
    /\ \E p \in {"even", "odd"} :
            Commit("skip_while", 1, 0, p, Iter_skip_while(Heap, 1, p))

CallCloned == CanDerive /\ Commit("cloned", 1, 0, "none", Iter_cloned(Heap, 1))

(* The binary methods are called on the two source engines, a.op(b).      *)
CallZip ==
    Len(engines) >= 2 /\ CanDerive /\ Commit("zip", 1, 2, "none", Iter_zip(Heap, 1, 2))
CallChain ==
    Len(engines) >= 2 /\ CanDerive /\ Commit("chain", 1, 2, "none", Iter_chain(Heap, 1, 2))
CallEqBy ==
    /\ Len(engines) >= 2
    /\ \E q \in {"strict", "approx"} : Commit("eq_by", 1, 2, q, Iter_eq_by(Heap, 1, 2, q))
CallCmpBy ==
    /\ Len(engines) >= 2
    /\ \E c \in {"diff", "threeway", "nanBelow"} :
            Commit("cmp_by", 1, 2, c, Iter_cmp_by(Heap, 1, 2, c))

---------------------------------------------------------------------------
(* The engine on its own: one Iter over an array, any method on any       *)
(* engine made so far.                                                     *)
Init ==
    /\ \E a \in Arrays : iters = <<ArrayIterator(a)>>
    /\ engines = <<Iter(1)>>
    /\ hist = <<>>
    /\ budget = MaxCalls

Next ==
    \/ CallNext
    \/ CallPeek
    \/ CallCollect
    \/ CallFold
    \/ CallMap
    \/ CallInspect
    \/ CallFilter
    \/ CallEnumerate
    \/ CallTake

Spec == Init /\ [][Next]_vars

(* A fused engine over a scripted source: the script may answer done with *)
(* a value and may go on after done.                                       *)
Results == {[value |-> v, done |-> d] : v \in {Undef, Num(1)}, d \in BOOLEAN}

InitFuse ==
    /\ \E script \in SeqsUpTo(Results, MaxLen) : iters = <<MockIterator(script)>>
    /\ engines = <<Iter(1)>>
    /\ hist = <<>>
    /\ budget = MaxCalls

NextFuse ==
    \/ CallNext
    \/ CallPeek
    \/ CallFuse

SpecFuse == InitFuse /\ [][NextFuse]_vars

(* An engine and its duplicates: seq.cloned() and next on any of them.     *)
InitCloned ==
    /\ \E a \in SeqsUpTo({Num(1), Obj(1), Obj(2)}, MaxLen) : iters = <<ArrayIterator(a)>>
    /\ engines = <<Iter(1)>>
    /\ hist = <<>>
    /\ budget = MaxClonedCalls

NextCloned ==
    \/ CallNext
    \/ CallCloned

SpecCloned == InitCloned /\ [][NextCloned]_vars

(* Two engines over two arrays and every binary method, a.op(b).          *)
InitBinary ==
    /\ \E a \in Arrays, b \in Arrays : iters = <<ArrayIterator(a), ArrayIterator(b)>>
    /\ engines = <<Iter(1), Iter(2)>>
    /\ hist = <<>>
    /\ budget = MaxCalls

NextBinary ==
    \/ CallNext
    \/ CallCollect
    \/ CallZip
    \/ CallChain
    \/ CallEqBy
    \/ CallCmpBy

SpecBinary == InitBinary /\ [][NextBinary]_vars

(* cmp_by of two arrays long enough to hold an equal pair, a deciding pair *)
(* and a pair after it.                                                    *)
InitCmp ==
    /\ \E a \in SeqsUpTo(Numbers, MaxLen + 1), b \in SeqsUpTo(Numbers, MaxLen + 1) :
            iters = <<ArrayIterator(a), ArrayIterator(b)>>
    /\ engines = <<Iter(1), Iter(2)>>
    /\ hist = <<>>
    /\ budget = MaxCmpCalls

NextCmp ==
    \/ CallNext
    \/ CallCmpBy

SpecCmp == InitCmp /\ [][NextCmp]_vars

(* Two engines over arrays that may hold undefined, fuse, and the methods  *)
(* that advance two engines together.                                      *)
InitLock ==
    /\ \E a \in SeqsUpTo({Undef, Num(1)}, MaxLen), b \in SeqsUpTo({Undef, Num(1)}, MaxLen) :
            iters = <<ArrayIterator(a), ArrayIterator(b)>>
    /\ engines = <<Iter(1), Iter(2)>>
    /\ hist = <<>>
    /\ budget = MaxCalls

NextLock ==
    \/ CallNext
    \/ CallFuse
    \/ CallZip
    \/ CallEqBy
    \/ CallCmpBy

SpecLock == InitLock /\ [][NextLock]_vars

(* An engine over an array of numbers: next, peek and fuse, and the        *)
(* draining collect and fold.                                              *)
InitDrain ==
    /\ \E a \in Arrays : iters = <<ArrayIterator(a)>>
    /\ engines = <<Iter(1)>>
    /\ hist = <<>>
    /\ budget = MaxCalls

NextDrain ==
    \/ CallNext
    \/ CallPeek
    \/ CallFuse
    \/ CallCollect
    \/ CallFold

SpecDrain == InitDrain /\ [][NextDrain]_vars

(* zip and chain of two arrays of distinct elements, a = 1, 2, ... and     *)
(* b = 11, 12, ..., of every length up to MaxLen.                          *)
Upto(base, n) == [i \in 1..n |-> Num(base + i)]

InitPair ==
    /\ \E la \in 0..MaxLen, lb \in 0..MaxLen :
            iters = <<ArrayIterator(Upto(0, la)), ArrayIterator(Upto(10, lb))>>
    /\ engines = <<Iter(1), Iter(2)>>
    /\ hist = <<>>
    /\ budget = MaxPairCalls

NextPair ==
    \/ CallNext
    \/ CallCollect
    \/ CallZip
    \/ CallChain

SpecPair == InitPair /\ [][NextPair]_vars

(* take_while of an array long enough to hold an accepted element, a      *)
(* refused one and one after it.                                           *)
InitTakeWhile ==
    /\ \E a \in SeqsUpTo(Numbers, MaxLen + 1) : iters = <<ArrayIterator(a)>>
    /\ engines = <<Iter(1)>>
    /\ hist = <<>>
    /\ budget = MaxSelectCalls

NextTakeWhile ==
    \/ CallNext
    \/ CallCollect
    \/ CallTakeWhile

SpecTakeWhile == InitTakeWhile /\ [][NextTakeWhile]_vars

(* The terminal operations and advance_by on one engine over an array.     *)
InitTerminal ==
    /\ \E a \in Arrays : iters = <<ArrayIterator(a)>>
    /\ engines = <<Iter(1)>>
    /\ hist = <<>>
    /\ budget = MaxCalls

NextTerminal ==
    \/ CallNext
    \/ CallCollect
    \/ CallFold
    \/ CallAll
    \/ CallAny
    \/ CallLast
    \/ CallPartition
    \/ CallAdvanceBy

SpecTerminal == InitTerminal /\ [][NextTerminal]_vars

(* partition of an array of 1, 2 and 3, long enough for a group of two     *)
(* different elements and one of the other group.                          *)
InitPartition ==
    /\ \E a \in SeqsUpTo({Num(1), Num(2), Num(3)}, MaxLen + 1) : iters = <<ArrayIterator(a)>>
    /\ engines = <<Iter(1)>>
    /\ hist = <<>>
    /\ budget = MaxCalls

NextPartition ==
    \/ CallNext
    \/ CallPartition

SpecPartition == InitPartition /\ [][NextPartition]_vars

(* An engine over an array and its by_ref views.                           *)
InitByRef ==
    /\ \E a \in Arrays : iters = <<ArrayIterator(a)>>
    /\ engines = <<Iter(1)>>
    /\ hist = <<>>
    /\ budget = MaxCalls

NextByRef ==
    \/ CallNext
    \/ CallPeek
    \/ CallByRef

SpecByRef == InitByRef /\ [][NextByRef]_vars

(* step_by and skip_while of an array.                                     *)
InitSelect ==
    /\ \E a \in Arrays : iters = <<ArrayIterator(a)>>
    /\ engines = <<Iter(1)>>
    /\ hist = <<>>
    /\ budget = MaxSelectCalls

NextSelect ==
    \/ CallNext
    \/ CallCollect
    \/ CallStepBy
    \/ CallSkipWhile

SpecSelect == InitSelect /\ [][NextSelect]_vars

---------------------------------------------------------------------------
(* Helpers of the statements below.                                        *)
Min(x, y) == IF x < y THEN x ELSE y

Combinators == {"map", "inspect", "filter", "enumerate", "take", "zip", "chain"}
Terminals == {"collect", "fold", "eq_by", "cmp_by"}
UnaryKinds == {"map", "inspect", "filter", "enumerate", "take"}

(* The calls of hist, by index, that satisfy P.                            *)
CallsBefore(k, P(_)) == {j \in 1..(k - 1) : P(hist[j])}

IsNextOn(e, c) == c.op = "next" /\ c.self = e
IsCollectOn(e, c) == c.op = "collect" /\ c.self = e

(* C1. Single-pass: a consuming operation (next, a combinator, a terminal  *)
(* operation) called on an engine whose consumed flag is true throws and   *)
(* returns nothing.                                                        *)
C1_ConsumedAlwaysThrows ==
    \A k \in DOMAIN hist :
        /\ hist[k].consumedBefore
        /\ hist[k].op \in {"next"} \cup Combinators \cup Terminals
        => hist[k].thrown

(* C2. Hand-off is permanent: whenever the caller is in control, the       *)
(* engine a unary combinator was applied to has consumed = true.           *)
C2_ParentStaysConsumed ==
    \A s \in DOMAIN iters :
        iters[s].kind \in UnaryKinds => engines[iters[s].self].consumed

(* C3. Peek transparency: in a run of next, peek and collect calls on one  *)
(* engine over an array, every peek returns the element the following next *)
(* returns, and every next and collect returns what it returns in the run  *)
(* without the peeks: next the element at the position (the number of      *)
(* earlier next calls), with done set exactly when the array is exhausted, *)
(* and collect the elements from the position on.                          *)
OnlyPeekNextCollect ==
    \A k \in DOMAIN hist : hist[k].self = 1 /\ hist[k].op \in {"next", "peek", "collect"}

Collected(k) == CallsBefore(k, LAMBDA c : IsCollectOn(1, c)) # {}

Position(k) ==
    LET a == iters[1].items
    IN IF Collected(k) THEN Len(a)
       ELSE Min(Len(a), Cardinality(CallsBefore(k, LAMBDA c : IsNextOn(1, c))))

ElementAt(a, p) == IF p <= Len(a) THEN a[p] ELSE Undef

AsWithoutPeek(k) ==
    LET a == iters[1].items
        p == Position(k)
        c == hist[k]
    IN CASE c.op = "peek" -> c.ret = ElementAt(a, p + 1)
         [] c.op = "next" ->
                IF c.consumedBefore THEN c.thrown
                ELSE c.ret = ElementAt(a, p + 1) /\ c.doneAfter = (p >= Len(a))
         [] c.op = "collect" -> ~c.thrown /\ c.ret = SubSeq(a, p + 1, Len(a))

C3_PeekTransparent ==
    OnlyPeekNextCollect => \A k \in DOMAIN hist : AsWithoutPeek(k)

(* The part of C3 that does not depend on peek: without any peek the run   *)
(* is the reference run.                                                   *)
NoPeek == \A k \in DOMAIN hist : hist[k].op # "peek"
C3_Reference == OnlyPeekNextCollect /\ NoPeek => \A k \in DOMAIN hist : AsWithoutPeek(k)

(* C4. Fuse stickiness: once fuse() was called and a next() has returned   *)
(* end, every later next() returns end and does not pull the source.       *)
FuseCalledBefore(k) == CallsBefore(k, LAMBDA c : c.op = "fuse" /\ c.self = 1) # {}

ReturnedEnd(c) == IsNextOn(1, c) /\ ~c.thrown /\ c.ret = Undef /\ c.doneAfter

C4_FusedEndIsSticky ==
    \A k \in DOMAIN hist, m \in DOMAIN hist :
        /\ k < m
        /\ FuseCalledBefore(k)
        /\ ReturnedEnd(hist[k])
        /\ IsNextOn(1, hist[m])
        => hist[m].ret = Undef /\ hist[m].pulls = hist[m].pullsBefore

(* The same for sources whose done results carry no value.                 *)
PlainEnds == \A i \in DOMAIN iters[1].items :
    iters[1].items[i].done => iters[1].items[i].value = Undef
C4_PlainEnds == PlainEnds => C4_FusedEndIsSticky

(* C5. Cloned independence: with r the elements seq has left when          *)
(* dup = seq.cloned() is called, the next calls on seq return r and then   *)
(* end, and the next calls on dup return copies of r (equal content, and   *)
(* for an object a different object) and then end, however the calls on    *)
(* the two are interleaved.                                                *)
NextsBefore(k, e) == Cardinality(CallsBefore(k, LAMBDA c : IsNextOn(e, c)))

SeqReturnsSource(k) ==
    LET a == iters[1].items
        p == NextsBefore(k, 1)
    IN /\ ~hist[k].thrown
       /\ hist[k].ret = ElementAt(a, p + 1)
       /\ hist[k].doneAfter = (p >= Len(a))

LeftAt(c) ==
    LET a == iters[1].items
    IN SubSeq(a, Min(Len(a), NextsBefore(c, 1)) + 1, Len(a))

DupReturnsCopy(c, m) ==
    LET r == LeftAt(c)
        j == NextsBefore(m, hist[c].ret)
    IN /\ ~hist[m].thrown
       /\ IF j < Len(r)
          THEN /\ SameContent(hist[m].ret, r[j + 1])
               /\ r[j + 1].t = "object" => hist[m].ret # r[j + 1]
               /\ ~hist[m].doneAfter
          ELSE hist[m].ret = Undef /\ hist[m].doneAfter

C5_ClonedIndependent ==
    /\ \A k \in DOMAIN hist : IsNextOn(1, hist[k]) => SeqReturnsSource(k)
    /\ \A c \in DOMAIN hist, m \in DOMAIN hist :
          hist[c].op = "cloned" /\ IsNextOn(hist[c].ret, hist[m]) => DupReturnsCopy(c, m)

(* dup has returned all of r, an object among it, and its end, while seq   *)
(* has returned only its first element since the call.                     *)
C5_Witness ==
    \E c \in DOMAIN hist, m \in DOMAIN hist :
        /\ hist[c].op = "cloned"
        /\ IsNextOn(hist[c].ret, hist[m]) /\ hist[m].doneAfter
        /\ Len(LeftAt(c)) >= 2
        /\ \E i \in DOMAIN LeftAt(c) : LeftAt(c)[i].t = "object"
        /\ NextsBefore(Len(hist) + 1, 1) - NextsBefore(c, 1) = 1
        /\ IsNextOn(1, hist[Len(hist)])

(* C6. Binary methods consume both operands: when zip, chain, eq_by or     *)
(* cmp_by has returned, on any return path, both operands have             *)
(* consumed = true.                                                        *)
LastCall == hist[Len(hist)]

C6_BothOperandsConsumed ==
    /\ hist # <<>>
    /\ LastCall.op \in {"zip", "chain", "eq_by", "cmp_by"}
    /\ ~LastCall.thrown
    => engines[LastCall.self].consumed /\ engines[LastCall.other].consumed

(* C7. cmp_by length tie-break: called on two fresh engines over a and b   *)
(* with a comparator that is 0 exactly on equal elements, cmp_by returns   *)
(* -1 when a is a proper prefix of b, 1 when b is a proper prefix of a and *)
(* 0 when a = b.                                                           *)
IsPrefix(a, b) == Len(a) <= Len(b) /\ \A i \in 1..Len(a) : a[i] = b[i]
IsProperPrefix(a, b) == IsPrefix(a, b) /\ Len(a) < Len(b)
SameArray(a, b) == IsPrefix(a, b) /\ Len(a) = Len(b)

C7_CmpByTieBreak ==
    hist # <<>> /\ hist[1].op = "cmp_by" =>
        /\ IsProperPrefix(iters[1].items, iters[2].items) => hist[1].ret = Num(0 - 1)
        /\ IsProperPrefix(iters[2].items, iters[1].items) => hist[1].ret = Num(1)
        /\ SameArray(iters[1].items, iters[2].items) => hist[1].ret = Num(0)

(* C8. eq_by result: called on two fresh engines over a and b, eq_by       *)
(* returns true exactly when a and b have the same length and eq holds of  *)
(* every pair of elements at the same index.                               *)
C8_EqByResult ==
    hist # <<>> /\ hist[1].op = "eq_by" =>
        LET a == iters[1].items
            b == iters[2].items
        IN hist[1].ret = Bool(/\ Len(a) = Len(b)
                              /\ \A i \in DOMAIN a : Eq(hist[1].argument, a[i], b[i]))

(* The same with eq the strict equality, which holds of (undefined,        *)
(* undefined).                                                             *)
C8_StrictEq == hist # <<>> /\ hist[1].argument = "strict" => C8_EqByResult

(* The stream an engine made by zip or chain at call c is to produce, and  *)
(* what the next and collect calls on it return when it produces E: next   *)
(* the element at the position, with done set exactly past the last, and   *)
(* collect the elements from the position on.                              *)
LeftOf(c, s) == SubSeq(iters[s].items, hist[c].posBefore[s] + 1, Len(iters[s].items))

OneCombinator == Cardinality({k \in DOMAIN hist : hist[k].op \in {"zip", "chain"}}) = 1

Taken(m, z, E) ==
    IF CallsBefore(m, LAMBDA c : IsCollectOn(z, c)) # {} THEN Len(E)
    ELSE Min(Len(E), NextsBefore(m, z))

Produces(m, z, E) ==
    LET t == Taken(m, z, E)
        c == hist[m]
    IN CASE IsNextOn(z, c) ->
                IF c.consumedBefore THEN c.thrown
                ELSE ~c.thrown /\ c.ret = ElementAt(E, t + 1) /\ c.doneAfter = (t >= Len(E))
         [] IsCollectOn(z, c) -> ~c.thrown /\ c.ret = SubSeq(E, t + 1, Len(E))
         [] OTHER -> TRUE

(* C9. zip, short sequence wins: a.zip(b) emits the pairs [a[i], b[i]]     *)
(* for i up to the shorter length, in order, and reports end at the first  *)
(* pull at which either side reports end.                                  *)
ZipOf(a, b) == [i \in 1..Min(Len(a), Len(b)) |-> Pair(a[i], b[i])]

C9_ZipShortWins ==
    OneCombinator =>
        \A c \in DOMAIN hist, m \in DOMAIN hist :
            hist[c].op = "zip" => Produces(m, hist[c].ret, ZipOf(LeftOf(c, 1), LeftOf(c, 2)))

(* a and b of different lengths, at least one pair, all pairs and the end  *)
(* returned by next.                                                       *)
C9_Witness ==
    /\ OneCombinator
    /\ \E c \in DOMAIN hist :
        /\ hist[c].op = "zip"
        /\ Len(LeftOf(c, 1)) # Len(LeftOf(c, 2))
        /\ ZipOf(LeftOf(c, 1), LeftOf(c, 2)) # <<>>
        /\ IsNextOn(hist[c].ret, LastCall) /\ LastCall.doneAfter
        /\ NextsBefore(Len(hist), hist[c].ret) = Min(Len(LeftOf(c, 1)), Len(LeftOf(c, 2)))

(* C10. chain preserves order and totals: a.chain(b) emits a, then b, then *)
(* end, collect() returns a ++ b, and no element of b is pulled before a   *)
(* has reported end.                                                       *)
C10_ChainInOrder ==
    OneCombinator =>
        \A c \in DOMAIN hist, m \in DOMAIN hist :
            hist[c].op = "chain" =>
                /\ Produces(m, hist[c].ret, LeftOf(c, 1) \o LeftOf(c, 2))
                /\ m >= c /\ hist[m].pulls[2] > hist[c].pulls[2]
                    => hist[m].pulls[1] > Len(iters[1].items)

(* a and b both with elements left, all of them and the end returned by    *)
(* next.                                                                   *)
C10_Witness ==
    /\ OneCombinator
    /\ \E c \in DOMAIN hist :
        /\ hist[c].op = "chain"
        /\ LeftOf(c, 1) # <<>> /\ LeftOf(c, 2) # <<>>
        /\ IsNextOn(hist[c].ret, LastCall) /\ LastCall.doneAfter
        /\ NextsBefore(Len(hist), hist[c].ret) = Len(LeftOf(c, 1)) + Len(LeftOf(c, 2))


(* The calls that derive an engine from the source by take_while, step_by  *)
(* or skip_while; the statements below are about runs with one of them.    *)
Selectors == {"take_while", "step_by", "skip_while"}
OneSelector == Cardinality({k \in DOMAIN hist : hist[k].op \in Selectors}) = 1

(* C11. take_while halts the stream: s.take_while(p) emits the longest     *)
(* prefix of s whose elements all satisfy p, then end, on every later      *)
(* pull, and the source is never pulled past the first element p refuses.  *)
RECURSIVE LongestPrefix(_, _)
LongestPrefix(a, p) ==
    IF a = <<>> \/ ~Test(p, Head(a)) THEN <<>>
    ELSE <<Head(a)>> \o LongestPrefix(Tail(a), p)

C11_TakeWhileHalts ==
    OneSelector =>
        \A c \in DOMAIN hist, m \in DOMAIN hist :
            hist[c].op = "take_while" =>
                LET E == LongestPrefix(LeftOf(c, 1), hist[c].argument)
                IN /\ Produces(m, hist[c].ret, E)
                   /\ iters[1].pos <= hist[c].posBefore[1]
                                        + Min(Len(E) + 1, Len(LeftOf(c, 1)))

(* An element is emitted, the next is refused, one more is left in the     *)
(* source, and the derived engine is pulled again after it reported end.   *)
C11_Witness ==
    /\ OneSelector
    /\ \E c \in DOMAIN hist :
        LET E == LongestPrefix(LeftOf(c, 1), hist[c].argument)
        IN /\ hist[c].op = "take_while"
           /\ E # <<>> /\ Len(LeftOf(c, 1)) >= Len(E) + 2
           /\ IsNextOn(hist[c].ret, LastCall) /\ LastCall.doneBefore
           /\ NextsBefore(Len(hist), hist[c].ret) = Len(E) + 1


(* C12. Terminal operations consume the engine: when a terminal operation  *)
(* has returned, short-circuited or not, the engine it was called on has   *)
(* consumed = true.                                                        *)
TerminalOps == {"collect", "fold", "all", "any", "last", "partition"}

C12_TerminalsConsume ==
    hist # <<>> /\ LastCall.op \in TerminalOps /\ ~LastCall.thrown
        => engines[LastCall.self].consumed

(* The terminal operations that assign this.#consumed = true do leave it   *)
(* true.                                                                   *)
C12_AssigningTerminals ==
    hist # <<>> /\ LastCall.op \in {"collect", "fold", "partition"} /\ ~LastCall.thrown
        => engines[LastCall.self].consumed


(* C13. by_ref is a view on one shared position: in a run with a by_ref    *)
(* call, every next, on whichever engine, returns the source element after *)
(* the ones the earlier next calls returned (undefined past the end).      *)
IsNext(c) == c.op = "next"
HasByRef == \E c \in DOMAIN hist : hist[c].op = "by_ref"

C13_ByRefSharesPosition ==
    HasByRef =>
        \A m \in DOMAIN hist :
            IsNext(hist[m]) =>
                hist[m].ret = ElementAt(iters[1].items, Cardinality(CallsBefore(m, IsNext)) + 1)

(* The same in the runs without peek.                                      *)
C13_WithoutPeek == NoPeek => C13_ByRefSharesPosition


(* C14. advance_by(n) on an engine with k elements left returns undefined  *)
(* exactly when n <= k, and k otherwise.                                   *)
IsAdvanceBy(c) == c.op = "advance_by" /\ ~c.thrown /\ ~c.hang

C14_AdvanceByResult ==
    \A m \in DOMAIN hist :
        IsAdvanceBy(hist[m]) =>
            LET k == Len(LeftOf(m, 1))
            IN hist[m].ret = (IF hist[m].argument <= k THEN Undef ELSE Num(k))

(* What the loop returns: the engine learns of the end one step late, so   *)
(* an engine not yet done returns undefined up to n = k + 1 and k + 1      *)
(* beyond; an engine already done returns 0 for every n > 0.               *)
C14_AdvanceByOneLate ==
    \A m \in DOMAIN hist :
        IsAdvanceBy(hist[m]) =>
            LET k == Len(LeftOf(m, 1))
                n == hist[m].argument
            IN hist[m].ret = (IF hist[m].doneBefore
                              THEN (IF n = 0 THEN Undef ELSE Num(0))
                              ELSE (IF n <= k + 1 THEN Undef ELSE Num(k + 1)))


(* C15. step_by selection: s.step_by(step) emits s[0], s[step],            *)
(* s[2*step], ... (the indices below |s|), in order, and then end: nothing *)
(* for an empty s, and never a value that is not an element of s.          *)
EveryNth(a, step) == [i \in 1..((Len(a) + step - 1) \div step) |-> a[(i - 1) * step + 1]]

IsStepBy(c) == c.op = "step_by" /\ ~c.thrown

C15_StepBySelection ==
    OneSelector =>
        \A c \in DOMAIN hist, m \in DOMAIN hist :
            IsStepBy(hist[c]) =>
                Produces(m, hist[c].ret, EveryNth(LeftOf(c, 1), hist[c].argument))

(* What the generator emits: the item of every round, the round that       *)
(* starts at the end of s included, so one undefined more when |s| is a    *)
(* multiple of step.                                                       *)
StepByEmits(a, step) ==
    IF Len(a) % step = 0 THEN Append(EveryNth(a, step), Undef) ELSE EveryNth(a, step)

C15_StepByTrailingItem ==
    OneSelector =>
        \A c \in DOMAIN hist, m \in DOMAIN hist :
            IsStepBy(hist[c]) =>
                Produces(m, hist[c].ret, StepByEmits(LeftOf(c, 1), hist[c].argument))


(* C16. skip_while result: s.skip_while(p) emits the suffix of s from the  *)
(* first element p refuses, in order, then end; nothing when p refuses no  *)
(* element; and p is called on no element after the first it refuses.      *)
RECURSIVE DropWhile(_, _)
DropWhile(a, p) ==
    IF a = <<>> \/ ~Test(p, Head(a)) THEN a ELSE DropWhile(Tail(a), p)

(* The skip_while call c returned an engine, and the caller has used only  *)
(* that engine since.                                                      *)
IsSkipWhile(c) ==
    /\ hist[c].op = "skip_while" /\ ~hist[c].thrown
    /\ \A m \in DOMAIN hist : m > c => hist[m].self = hist[c].ret

(* The elements p was called on: the dropped ones and the first refused.   *)
TestedBy(c) == iters[engines[hist[c].ret].iter].seen

SkipWhileTests(c, E) ==
    LET a == LeftOf(c, 1)
    IN /\ Len(TestedBy(c)) <= Min(Len(a), Len(a) - Len(E) + 1)
       /\ TestedBy(c) = SubSeq(a, 1, Len(TestedBy(c)))

C16_SkipWhileResult ==
    OneSelector =>
        \A c \in DOMAIN hist, m \in DOMAIN hist :
            IsSkipWhile(c) =>
                LET E == DropWhile(LeftOf(c, 1), hist[c].argument)
                IN Produces(m, hist[c].ret, E) /\ SkipWhileTests(c, E)

(* What the generator emits: item.value of the pull that ended the scan,   *)
(* the undefined of the source's end when p refused no element.            *)
SkipWhileEmits(E) == IF E = <<>> THEN <<Undef>> ELSE E

C16_SkipWhileEndItem ==
    OneSelector =>
        \A c \in DOMAIN hist, m \in DOMAIN hist :
            IsSkipWhile(c) =>
                LET E == DropWhile(LeftOf(c, 1), hist[c].argument)
                IN Produces(m, hist[c].ret, SkipWhileEmits(E)) /\ SkipWhileTests(c, E)


(* C17. cmp_by stops at the first deciding pair: when the comparator's     *)
(* result is not 0 for some pair of elements at the same index, cmp_by     *)
(* returns its sign at the first such index, 0 when it is NaN, and has     *)
(* pulled each source up to that index and no further.                     *)
Deciding(c, A, B) == {i \in 1..Min(Len(A), Len(B)) : Cmp(c, A[i], B[i]) # Num(0)}

FirstOf(S) == CHOOSE i \in S : \A j \in S : i <= j

IsCmpBy(c) == c.op = "cmp_by" /\ ~c.thrown

OrdOf(ord) == IF ord = NaN THEN Num(0) ELSE Num(Sign(ord.n))

C17_CmpByFirstDeciding ==
    \A m \in DOMAIN hist :
        LET A == LeftOf(m, 1)
            B == LeftOf(m, 2)
            D == Deciding(hist[m].argument, A, B)
        IN IsCmpBy(hist[m]) /\ D # {} =>
            LET d == FirstOf(D)
            IN /\ hist[m].ret = OrdOf(Cmp(hist[m].argument, A[d], B[d]))
               /\ \A s \in {1, 2} : hist[m].pulls[s] = hist[m].pullsBefore[s] + d

(* An equal pair, then a pair the comparator gives NaN for, then more      *)
(* elements on both sides.                                                 *)
C17_Witness ==
    \E m \in DOMAIN hist :
        LET A == LeftOf(m, 1)
            B == LeftOf(m, 2)
            D == Deciding(hist[m].argument, A, B)
        IN /\ IsCmpBy(hist[m]) /\ D # {}
           /\ FirstOf(D) = 2 /\ Len(A) > 2 /\ Len(B) > 2
           /\ Cmp(hist[m].argument, A[2], B[2]) = NaN


(* C18. partition preserves order: s.partition(p) returns the subsequence  *)
(* of the elements of s that satisfy p and the subsequence of those that   *)
(* do not, each in the order of s.                                         *)
IsPartition(c) == c.op = "partition" /\ ~c.thrown /\ ~c.hang

Accepted(a, p) == SelectSeq(a, LAMBDA x : Test(p, x))
Refused(a, p) == SelectSeq(a, LAMBDA x : ~Test(p, x))

C18_PartitionKeepsOrder ==
    \A m \in DOMAIN hist :
        IsPartition(hist[m]) =>
            hist[m].ret = Pair(Accepted(LeftOf(m, 1), hist[m].argument),
                               Refused(LeftOf(m, 1), hist[m].argument))

(* A group of two different elements with an element of the other group    *)
(* between them.                                                           *)
C18_Witness ==
    \E m \in DOMAIN hist :
        /\ IsPartition(hist[m])
        /\ LeftOf(m, 1) = <<Num(1), Num(2), Num(3)>>
        /\ hist[m].ret = Pair(<<Num(1), Num(3)>>, <<Num(2)>>)


(* C19. Lock-step pairing: when eq_by or cmp_by returns, and after every   *)
(* pull of a zipped engine, the call has pulled the source of self as many *)
(* times as the source of other.                                           *)
PulledBy(m, s) == hist[m].pulls[s] - hist[m].pullsBefore[s]

IsZipped(z) == \E c \in DOMAIN hist : hist[c].op = "zip" /\ ~hist[c].thrown /\ hist[c].ret = z

AdvancesPair(c) ==
    /\ ~c.thrown /\ ~c.hang
    /\ \/ c.op \in {"eq_by", "cmp_by"}
       \/ c.op = "next" /\ IsZipped(c.self)

C19_LockStep ==
    \A m \in DOMAIN hist : AdvancesPair(hist[m]) => PulledBy(m, 1) = PulledBy(m, 2)

(* The same in the runs without fuse.                                      *)
NoFuse == \A k \in DOMAIN hist : hist[k].op # "fuse"

C19_WithoutFuse == NoFuse => C19_LockStep


(* C20. Draining terminates: after any next, peek and fuse calls on an     *)
(* engine over a finite source, collect and fold return after finitely     *)
(* many pulls.                                                             *)
IsDrain(c) == c.op \in {"collect", "fold"}

C20_DrainTerminates == \A m \in DOMAIN hist : IsDrain(hist[m]) => ~hist[m].hang

(* The same in the runs without fuse.                                      *)
C20_WithoutFuse == NoFuse => C20_DrainTerminates


(* C21. Fused-dead implies done: after any next, peek and fuse calls, an   *)
(* engine has fused.dead only if fuse() was called and a pull of the       *)
(* source reported end, and then its done flag is true as well.            *)
EndReported ==
    \/ \E i \in 1..iters[1].pos : iters[1].items[i].done
    \/ iters[1].pulls > iters[1].pos

C21_FusedDeadImpliesDone ==
    engines[1].fused.dead =>
        engines[1].fused.called /\ EndReported /\ engines[1].done

(* The part that holds: dead is set only once fuse() was called.           *)
C21_DeadOnlyAfterFuse == engines[1].fused.dead => engines[1].fused.called

=============================================================================
